---- MODULE Spec2Model ----
(***************************************************************************)
(* Seat reservation lifecycle of Project-Vubox: createBooking              *)
(* (server/controllers/bookingController.js), the deferred expiry function *)
(* releaseSeatsAndDeleteBooking (server/inngest/index.js) and the payment  *)
(* confirmation that sets isPaid.  Every await of a handler is a separate  *)
(* step, so that the handlers interleave as they do on the event loop and  *)
(* against the shared MongoDB documents.  The read side, getOccupiedSeats  *)
(* and the cron function sendShowReminders, has specifications of its own  *)
(* that start from the stores the lifecycle leaves behind.                 *)
(***************************************************************************)
EXTENDS Integers, Sequences, FiniteSets, TLC

\* ---------------------------------------------------------------- bounds
MaxCalls == 2
MaxSel == 2

\* ------------------------------------------------------------- constants
Calls == 1..MaxCalls
Seats == {"A", "B"}
Users == {"u1", "u2"}
Shows == {"s1"}
\* all show documents; the lifecycle specification books in Shows only
Catalog == Shows \cup {"s2"}
Malformed == "bad"
Unknown == "s404"
ShowIdInputs == Shows \cup {Unknown, Malformed}
Free == "free"
NoBooking == [absent |-> TRUE]
NoResult == [pending |-> TRUE]
NoRequest == [pending |-> TRUE]

showPrice == [s \in Catalog |-> 10]

SeatSeqs == UNION {[1..n -> Seats] : n \in 0..MaxSel}
\* req.body.selectedSeats: an array of seat labels, or some other value
NotArray == [isArray |-> FALSE, items |-> <<>>]
SelectedInputs ==
    {[isArray |-> TRUE, items |-> q] : q \in SeatSeqs} \cup {NotArray}
SeatMaps == [Seats -> Users \cup {Free}]
NoCopy == [seat \in Seats |-> "noCopy"]

Range(s) == {s[i] : i \in 1..Len(s)}

VARIABLES
    occupiedSeats,  \* Show.occupiedSeats of every show document
    bookings,       \* Booking collection, keyed by the id of the creating call
    pc,             \* position of every createBooking call
    req,            \* its inputs: userId, showId, selectedSeats
    showData,       \* its in-memory copy of the show document
    result,         \* its JSON response
    epc,            \* position of the expiry function run of every booking
    eshow,          \* that run's in-memory copy of the show document
    paidEvent,      \* a booking.paid event was emitted for the booking
    paidInTime,     \* isPaid was set before the run's 10 minute sleep elapsed
    inFlight,       \* the calls that were mid-execution when a call started
    showTime,       \* Show.showTime of every show document, in minutes
    movie,          \* populate("movie") finds the show's movie
    users,          \* ids of the User documents
    getSeats,       \* last getOccupiedSeats request and its response
    spc,            \* position of the sendShowReminders run
    now,            \* its clock reading, in minutes
    reminderTasks,  \* result of its step prepare-reminder-tasks
    results,        \* result of its step send-all-reminders
    report          \* its return value

lifeVars == <<occupiedSeats, bookings, pc, req, showData, result, epc, eshow,
              paidEvent, paidInTime, inFlight>>
catalogVars == <<showTime, movie, users>>
scanVars == <<spc, now, reminderTasks, results, report>>
readVars == <<catalogVars, getSeats, scanVars>>
vars == <<lifeVars, readVars>>

\* ------------------------------------------------- checkSeatsAvailability
TakenSeats(occ, sel) == SelectSeq(sel, LAMBDA seat : occ[seat] # Free)

\* variant: only the first selected seat is tested
CheckErrorFirstSeat(sid, sel, occ) ==
    IF sid = Malformed THEN <<"Invalid show ID format">>
    ELSE IF sid \notin Shows THEN <<"Show not found">>
    ELSE IF ~sel.isArray \/ Len(sel.items) = 0
         THEN <<"Invalid seats selection">>
    ELSE IF occ[sid][sel.items[1]] # Free
         THEN <<"Seats are already taken", <<sel.items[1]>> >>
    ELSE <<>>

\* variant: an empty selection is not rejected
CheckErrorNoLength(sid, sel, occ) ==
    IF sid = Malformed THEN <<"Invalid show ID format">>
    ELSE IF sid \notin Shows THEN <<"Show not found">>
    ELSE IF ~sel.isArray THEN <<"Invalid seats selection">>
    ELSE IF Len(TakenSeats(occ[sid], sel.items)) > 0
         THEN <<"Seats are already taken", TakenSeats(occ[sid], sel.items)>>
    ELSE <<>>

CheckError(sid, sel, occ) ==
    IF sid = Malformed THEN <<"Invalid show ID format">>
    ELSE IF sid \notin Shows THEN <<"Show not found">>
    ELSE IF ~sel.isArray \/ Len(sel.items) = 0
         THEN <<"Invalid seats selection">>
    ELSE IF Len(TakenSeats(occ[sid], sel.items)) > 0
         THEN <<"Seats are already taken", TakenSeats(occ[sid], sel.items)>>
    ELSE <<>>

Failure(msg) == [success |-> FALSE, message |-> msg]
Success == [success |-> TRUE, url |-> "session.url"]

\* ------------------------------------------------------------ createBooking
CheckSeatsAvailability(c, u, sid, sel) ==
    /\ pc[c] = "idle"
    /\ req' = [req EXCEPT ![c] = [user |-> u, show |-> sid,
                                  isArray |-> sel.isArray, seats |-> sel.items]]
    /\ LET err == CheckError(sid, sel, occupiedSeats) IN
       IF Len(err) > 0
       THEN /\ result' = [result EXCEPT ![c] = Failure(err)]
            /\ pc' = [pc EXCEPT ![c] = "done"]
       ELSE /\ pc' = [pc EXCEPT ![c] = "fetch"]
            /\ UNCHANGED result
    /\ inFlight' = [inFlight EXCEPT
                       ![c] = {d \in Calls : pc[d] \notin {"idle", "done"}}]
    /\ UNCHANGED <<occupiedSeats, bookings, showData, epc, eshow, paidEvent,
                   paidInTime>>
    /\ UNCHANGED readVars

FetchShow(c) ==
    /\ pc[c] = "fetch"
    /\ showData' = [showData EXCEPT ![c] = occupiedSeats[req[c].show]]
    /\ pc' = [pc EXCEPT ![c] = "create"]
    /\ UNCHANGED <<occupiedSeats, bookings, req, result, epc, eshow,
                   paidEvent, paidInTime, inFlight>>
    /\ UNCHANGED readVars

\* variant: the price of one seat, whatever the number of seats
NewBookingUnitPrice(u, sid, sel) ==
    [user |-> u, show |-> sid, bookedSeats |-> sel,
     amount |-> showPrice[sid], isPaid |-> FALSE,
     paymentLink |-> FALSE]

NewBooking(u, sid, sel) ==
    [user |-> u, show |-> sid, bookedSeats |-> sel,
     amount |-> showPrice[sid] * Len(sel), isPaid |-> FALSE,
     paymentLink |-> FALSE]

BookingCreate(c) ==
    /\ pc[c] = "create"
    /\ bookings' = [bookings EXCEPT
                      ![c] = NewBooking(req[c].user, req[c].show, req[c].seats)]
    /\ pc' = [pc EXCEPT ![c] = "save"]
    /\ UNCHANGED <<occupiedSeats, req, showData, result, epc, eshow,
                   paidEvent, paidInTime, inFlight>>
    /\ UNCHANGED readVars

\* variant: a flag is stored instead of the userId
OccupySeatsFlag(occ, sel, u) ==
    [seat \in Seats |-> IF seat \in Range(sel) THEN "taken" ELSE occ[seat]]

\* occupiedSeats is a Mixed path: markModified + save writes the whole
\* in-memory mapping over the stored one.
OccupySeats(occ, sel, u) ==
    [seat \in Seats |-> IF seat \in Range(sel) THEN u ELSE occ[seat]]

SaveShow(c) ==
    /\ pc[c] = "save"
    /\ occupiedSeats' = [occupiedSeats EXCEPT
           ![req[c].show] = OccupySeats(showData[c], req[c].seats, req[c].user)]
    /\ showData' = [showData EXCEPT ![c] = NoCopy]
    /\ pc' = [pc EXCEPT ![c] = "stripe"]
    /\ UNCHANGED <<bookings, req, result, epc, eshow, paidEvent, paidInTime,
                   inFlight>>
    /\ UNCHANGED readVars

StripeSession(c) ==
    /\ pc[c] = "stripe"
    /\ \/ /\ bookings' = [bookings EXCEPT ![c].paymentLink = TRUE]
          /\ pc' = [pc EXCEPT ![c] = "send"]
          /\ UNCHANGED result
       \/ /\ result' = [result EXCEPT ![c] = Failure(<<"stripe error">>)]
          /\ pc' = [pc EXCEPT ![c] = "done"]
          /\ UNCHANGED bookings
    /\ UNCHANGED <<occupiedSeats, req, showData, epc, eshow, paidEvent,
                   paidInTime, inFlight>>
    /\ UNCHANGED readVars

SendOutcomes == {"sent", "rejected", "timeoutDelivered", "timeoutLost"}
Delivered(outcome) == outcome \in {"sent", "timeoutDelivered"}

\* variant: a failed send reaches the outer catch
SendResultPropagated(outcome) ==
    IF Delivered(outcome) THEN Success ELSE Failure(<<"Inngest timeout">>)

SendResult(outcome) == Success

SendCheckPayment(c, outcome) ==
    /\ pc[c] = "send"
    /\ epc' = [epc EXCEPT ![c] = IF Delivered(outcome) THEN "sleeping" ELSE @]
    /\ result' = [result EXCEPT ![c] = SendResult(outcome)]
    /\ pc' = [pc EXCEPT ![c] = "done"]
    /\ UNCHANGED <<occupiedSeats, bookings, req, showData, eshow, paidEvent,
                   paidInTime, inFlight>>
    /\ UNCHANGED readVars

\* ------------------------------------------- releaseSeatsAndDeleteBooking
\* variant: the timer of a cancelled run still fires
SleepElapsedAfterCancel(c) ==
    /\ epc[c] \in {"sleeping", "cancelled"}
    /\ epc' = [epc EXCEPT ![c] = "check"]
    /\ UNCHANGED <<occupiedSeats, bookings, pc, req, showData, result, eshow,
                   paidEvent, paidInTime, inFlight>>
    /\ UNCHANGED readVars

SleepElapsed(c) ==
    /\ epc[c] = "sleeping"
    /\ epc' = [epc EXCEPT ![c] = "check"]
    /\ UNCHANGED <<occupiedSeats, bookings, pc, req, showData, result, eshow,
                   paidEvent, paidInTime, inFlight>>
    /\ UNCHANGED readVars

CancelOn(c) ==
    /\ epc[c] = "sleeping"
    /\ paidEvent[c]
    /\ epc' = [epc EXCEPT ![c] = "cancelled"]
    /\ UNCHANGED <<occupiedSeats, bookings, pc, req, showData, result, eshow,
                   paidEvent, paidInTime, inFlight>>
    /\ UNCHANGED readVars

Exists(b) == b # NoBooking

\* variant: the isPaid test is missing
SkipReleaseUnlessGone(b) == ~Exists(b)

\* variant: the test for a missing booking is missing
SkipReleaseIfPaid(b) == Exists(b) /\ b.isPaid

SkipRelease(b) == ~Exists(b) \/ b.isPaid

CheckPaymentStatus(c) ==
    /\ epc[c] = "check"
    /\ epc' = [epc EXCEPT
           ![c] = IF SkipRelease(bookings[c]) THEN "returned" ELSE "readShow"]
    /\ UNCHANGED <<occupiedSeats, bookings, pc, req, showData, result, eshow,
                   paidEvent, paidInTime, inFlight>>
    /\ UNCHANGED readVars

\* variant: the key is assigned null instead of being deleted
DeleteSeatAssignNull(occ, seat) == [occ EXCEPT ![seat] = "null"]

DeleteSeat(occ, seat) == [occ EXCEPT ![seat] = Free]

\* Show documents are never deleted, so Show.findById finds the show.

RECURSIVE ReleaseSeats(_, _)
ReleaseSeats(occ, sel) ==
    IF Len(sel) = 0 THEN occ
    ELSE ReleaseSeats(DeleteSeat(occ, Head(sel)), Tail(sel))

ReadShowAndRelease(c) ==
    /\ epc[c] = "readShow"
    /\ eshow' = [eshow EXCEPT
           ![c] = ReleaseSeats(occupiedSeats[bookings[c].show],
                               bookings[c].bookedSeats)]
    /\ epc' = [epc EXCEPT ![c] = "save"]
    /\ UNCHANGED <<occupiedSeats, bookings, pc, req, showData, result,
                   paidEvent, paidInTime, inFlight>>
    /\ UNCHANGED readVars

ExpirySave(c) ==
    /\ epc[c] = "save"
    /\ occupiedSeats' = [occupiedSeats EXCEPT ![bookings[c].show] = eshow[c]]
    /\ eshow' = [eshow EXCEPT ![c] = NoCopy]
    /\ epc' = [epc EXCEPT ![c] = "delete"]
    /\ UNCHANGED <<bookings, pc, req, showData, result, paidEvent, paidInTime,
                   inFlight>>
    /\ UNCHANGED readVars

BookingDelete(c) ==
    /\ epc[c] = "delete"
    /\ bookings' = [bookings EXCEPT ![c] = NoBooking]
    /\ epc' = [epc EXCEPT ![c] = "done"]
    /\ UNCHANGED <<occupiedSeats, pc, req, showData, result, eshow, paidEvent,
                   paidInTime, inFlight>>
    /\ UNCHANGED readVars

\* Inngest runs a step again when it threw.  Booking.findByIdAndDelete can
\* have removed the record before its failure was reported, and the step then
\* starts over at Booking.findById.
StepRetry(c) ==
    /\ epc[c] = "done"
    /\ epc' = [epc EXCEPT ![c] = "check"]
    /\ UNCHANGED <<occupiedSeats, bookings, pc, req, showData, result, eshow,
                   paidEvent, paidInTime, inFlight>>
    /\ UNCHANGED readVars

\* ---------------------------------------------------- payment confirmation
\* The payment processor confirms only a booking whose checkout session was
\* created.  A confirmation for a booking that is gone or already paid
\* changes nothing, so it is no step of the model.
HoldRunning(c) == epc[c] \in {"none", "sleeping"}

OnConfirmed(c) ==
    /\ Exists(bookings[c])
    /\ bookings[c].paymentLink
    /\ ~bookings[c].isPaid
    /\ bookings' = [bookings EXCEPT ![c].isPaid = TRUE]
    /\ paidEvent' = [paidEvent EXCEPT ![c] = TRUE]
    /\ paidInTime' = [paidInTime EXCEPT ![c] = HoldRunning(c)]
    /\ UNCHANGED <<occupiedSeats, pc, req, showData, result, epc, eshow,
                   inFlight>>
    /\ UNCHANGED readVars

\* --------------------------------------------------------- getOccupiedSeats
\* A mapping's keys are listed in some fixed order; no property depends on it.
RECURSIVE SeqOf(_)
SeqOf(S) ==
    IF S = {} THEN <<>>
    ELSE LET x == CHOOSE y \in S : TRUE IN <<x>> \o SeqOf(S \ {x})

ObjectKeys(occ) == SeqOf({seat \in Seats : occ[seat] # Free})
ObjectValues(occ) ==
    LET keys == ObjectKeys(occ) IN [i \in 1..Len(keys) |-> occ[keys[i]]]

NoGetSeats == [pending |-> TRUE]
ReadShowIds == Catalog \cup {Unknown, Malformed}

ErrorResponse(code, msg) ==
    [status |-> code, success |-> FALSE, message |-> msg]

\* variant: the holders are listed instead of the seat labels
ResponseHolders(occ) == ObjectValues(occ)

ResponseSeats(occ) == ObjectKeys(occ)

SeatsResponse(occ) ==
    LET seats == ResponseSeats(occ) IN
    [status |-> 200, success |-> TRUE, occupiedSeats |-> seats,
     total |-> Len(seats)]

GetOccupiedSeats(sid) ==
    /\ getSeats' =
           [showId |-> sid,
            res |-> IF sid = Malformed
                    THEN ErrorResponse(400, "Invalid show ID format")
                    ELSE IF sid \notin DOMAIN occupiedSeats
                    THEN ErrorResponse(404, "Show not found")
                    ELSE SeatsResponse(occupiedSeats[sid])]
    /\ UNCHANGED <<lifeVars, catalogVars, scanVars>>

\* -------------------------------------------------------- sendShowReminders
LeadMinutes == 480
WindowMinutes == 10
\* clock readings of a scan, and show times around the edges of its window
Clock == {0, WindowMinutes}
StartTimes ==
    {LeadMinutes - WindowMinutes - 1, LeadMinutes - WindowMinutes,
     LeadMinutes, LeadMinutes + 1, LeadMinutes + WindowMinutes}
\* syncUserDeletion removes User documents
UserSets == {Users, {"u1"}}
NoReport == [pending |-> TRUE]

In8Hours(n) == n + LeadMinutes
\* variant: the window has no width
WindowStartAtLead(n) == In8Hours(n)

WindowStart(n) == In8Hours(n) - WindowMinutes

FindShows(n) ==
    SeqOf({s \in DOMAIN occupiedSeats :
               showTime[s] >= WindowStart(n) /\ showTime[s] <= In8Hours(n)})

\* [...new Set(values)]
RECURSIVE Distinct(_)
Distinct(q) ==
    IF Len(q) = 0 THEN <<>>
    ELSE <<Head(q)>> \o Distinct(SelectSeq(Tail(q), LAMBDA x : x # Head(q)))

\* User.find({ _id: { $in: userIds } }): every matching document, once
FindUsers(userIds) == SeqOf({u \in users : u \in Range(userIds)})

Task(u, s) == [user |-> u, show |-> s, showTime |-> showTime[s]]

\* variant: one task for every seat entry
ShowTasksPerSeat(s) ==
    IF ~movie[s] THEN <<>>
    ELSE LET found == SelectSeq(ObjectValues(occupiedSeats[s]),
                                LAMBDA u : u \in users)
         IN [i \in 1..Len(found) |-> Task(found[i], s)]

ShowTasks(s) ==
    IF ~movie[s] THEN <<>>
    ELSE LET userIds == Distinct(ObjectValues(occupiedSeats[s]))
             found == FindUsers(userIds)
         IN [i \in 1..Len(found) |-> Task(found[i], s)]

RECURSIVE Tasks(_)
Tasks(shows) ==
    IF Len(shows) = 0 THEN <<>>
    ELSE ShowTasks(Head(shows)) \o Tasks(Tail(shows))

\* the cron trigger starts a run, also after an earlier run has returned
PrepareReminderTasks(n) ==
    /\ spc \in {"idle", "done"}
    /\ now' = n
    /\ reminderTasks' = Tasks(FindShows(n))
    /\ results' = <<>>
    /\ report' = NoReport
    /\ spc' = "prepared"
    /\ UNCHANGED <<lifeVars, catalogVars, getSeats>>

NoReminders ==
    /\ spc = "prepared"
    /\ Len(reminderTasks) = 0
    /\ report' = [sent |-> 0, message |-> "No reminders to send."]
    /\ spc' = "done"
    /\ UNCHANGED <<lifeVars, catalogVars, getSeats, now, reminderTasks,
                   results>>

\* Promise.allSettled: one result for every promise, whatever the others did
Settled(delivered) == IF delivered THEN "fulfilled" ELSE "rejected"

\* variant: every result is counted as sent
SentAll(rs) == Len(rs)

Sent(rs) == Len(SelectSeq(rs, LAMBDA r : r.status = "fulfilled"))

\* delivered[i]: sendEmail resolved for the i-th task
SendAllReminders(delivered) ==
    /\ spc = "prepared"
    /\ Len(reminderTasks) > 0
    /\ results' = [i \in 1..Len(reminderTasks) |->
                      [to |-> reminderTasks[i].user,
                       delivered |-> delivered[i],
                       status |-> Settled(delivered[i])]]
    /\ report' = [sent |-> Sent(results'),
                  failed |-> Len(results') - Sent(results')]
    /\ spc' = "done"
    /\ UNCHANGED <<lifeVars, catalogVars, getSeats, now, reminderTasks>>

\* ------------------------------------------------------------ specification
ReadIdle ==
    /\ getSeats = NoGetSeats
    /\ spc = "idle"
    /\ now = 0
    /\ reminderTasks = <<>>
    /\ results = <<>>
    /\ report = NoReport

CatalogDefault ==
    /\ showTime = [s \in Catalog |-> LeadMinutes]
    /\ movie = [s \in Catalog |-> TRUE]
    /\ users = Users

Init ==
    /\ CatalogDefault
    /\ ReadIdle
    /\ occupiedSeats = [s \in Shows |-> [seat \in Seats |-> Free]]
    /\ bookings = [c \in Calls |-> NoBooking]
    /\ pc = [c \in Calls |-> "idle"]
    /\ req = [c \in Calls |-> NoRequest]
    /\ showData = [c \in Calls |-> NoCopy]
    /\ result = [c \in Calls |-> NoResult]
    /\ epc = [c \in Calls |-> "none"]
    /\ eshow = [c \in Calls |-> NoCopy]
    /\ paidEvent = [c \in Calls |-> FALSE]
    /\ paidInTime = [c \in Calls |-> FALSE]
    /\ inFlight = [c \in Calls |-> {}]

Next ==
    \E c \in Calls :
        \/ \E u \in Users, sid \in ShowIdInputs, sel \in SelectedInputs :
               CheckSeatsAvailability(c, u, sid, sel)
        \/ FetchShow(c)
        \/ BookingCreate(c)
        \/ SaveShow(c)
        \/ StripeSession(c)
        \/ \E outcome \in SendOutcomes : SendCheckPayment(c, outcome)
        \/ SleepElapsed(c)
        \/ CancelOn(c)
        \/ CheckPaymentStatus(c)
        \/ ReadShowAndRelease(c)
        \/ ExpirySave(c)
        \/ BookingDelete(c)
        \/ StepRetry(c)
        \/ OnConfirmed(c)

Spec == Init /\ [][Next]_vars

\* ------------------------------------------------- read-side specifications
\* The stores that complete createBooking calls, one after the other, and
\* payment confirmations leave behind: every call has made no booking or a
\* booking with a checkout session, paid or still held, and bookings of one
\* show have no seat in common.
HeldBookings ==
    {[NewBooking(u, sid, sel) EXCEPT !.paymentLink = TRUE, !.isPaid = paid] :
        u \in Users, sid \in Catalog, sel \in SeatSeqs \ {<<>>},
        paid \in BOOLEAN}

SettledBookings ==
    {bs \in [Calls -> HeldBookings \cup {NoBooking}] :
        \A c, d \in Calls :
            (c # d /\ Exists(bs[c]) /\ Exists(bs[d])
                 /\ bs[c].show = bs[d].show) =>
                Range(bs[c].bookedSeats) \cap Range(bs[d].bookedSeats) = {}}

HolderIn(bs, sid, seat) ==
    {bs[c].user : c \in {d \in Calls : /\ Exists(bs[d])
                                       /\ bs[d].show = sid
                                       /\ seat \in Range(bs[d].bookedSeats)}}

StoreOf(bs) ==
    [sid \in Catalog |->
        [seat \in Seats |->
            IF HolderIn(bs, sid, seat) = {} THEN Free
            ELSE CHOOSE u \in HolderIn(bs, sid, seat) : TRUE]]

StoreInit ==
    /\ bookings \in SettledBookings
    /\ occupiedSeats = StoreOf(bookings)
    /\ pc = [c \in Calls |-> IF Exists(bookings[c]) THEN "done" ELSE "idle"]
    /\ req = [c \in Calls |->
                 IF Exists(bookings[c])
                 THEN [user |-> bookings[c].user, show |-> bookings[c].show,
                       isArray |-> TRUE, seats |-> bookings[c].bookedSeats]
                 ELSE NoRequest]
    /\ showData = [c \in Calls |-> NoCopy]
    /\ result = [c \in Calls |->
                    IF Exists(bookings[c]) THEN Success ELSE NoResult]
    /\ epc = [c \in Calls |->
                 IF ~Exists(bookings[c]) THEN "none"
                 ELSE IF bookings[c].isPaid THEN "cancelled" ELSE "sleeping"]
    /\ eshow = [c \in Calls |-> NoCopy]
    /\ paidEvent = [c \in Calls |-> Exists(bookings[c]) /\ bookings[c].isPaid]
    /\ paidInTime = paidEvent
    /\ inFlight = [c \in Calls |-> {}]

ReadInit == StoreInit /\ CatalogDefault /\ ReadIdle
ReadNext == \E sid \in ReadShowIds : GetOccupiedSeats(sid)
ReadSpec == ReadInit /\ [][ReadNext]_vars

ScanInit ==
    /\ StoreInit
    /\ showTime \in [Catalog -> StartTimes]
    /\ movie \in [Catalog -> BOOLEAN]
    /\ users \in UserSets
    /\ ReadIdle

ScanNext ==
    \/ \E n \in Clock : PrepareReminderTasks(n)
    \/ NoReminders
    \/ \E delivered \in [1..Len(reminderTasks) -> BOOLEAN] :
           SendAllReminders(delivered)

ScanSpec == ScanInit /\ [][ScanNext]_vars

\* ------------------------------------------------------------------ claims
Started(c) == pc[c] # "idle"
Finished(c) == pc[c] = "done"
Succeeded(c) == Finished(c) /\ result[c].success
SameShow(c, d) == req[c].show \in Shows /\ req[c].show = req[d].show
Overlap(c, d) == Range(req[c].seats) \cap Range(req[d].seats)
Concurrent(c, d) == d \in inFlight[c] \/ c \in inFlight[d]
Competing(c, d) ==
    /\ c # d /\ Started(c) /\ Started(d)
    /\ Concurrent(c, d) /\ SameShow(c, d) /\ Overlap(c, d) # {}

\* C1: of two createBooking calls on the same show that run concurrently and
\* whose selectedSeats overlap, at most one returns success, and the other one
\* fails with the error that names exactly the overlapping seats.
C1_ConcurrentAcquire ==
    \A c, d \in Calls :
        (Competing(c, d) /\ Finished(c) /\ Finished(d)) =>
            /\ ~(result[c].success /\ result[d].success)
            /\ result[c].success =>
                   result[d] = Failure(<<"Seats are already taken",
                       SelectSeq(req[d].seats,
                                 LAMBDA seat : seat \in Overlap(c, d))>>)

\* C2: for every show, no seat is in the bookedSeats of two different existing
\* bookings of that show, and every seat present in the show's occupiedSeats
\* is in the bookedSeats of the one existing booking that holds it.
BookingsOf(sid) == {c \in Calls : Exists(bookings[c]) /\ bookings[c].show = sid}
HoldersOf(sid, seat) ==
    {c \in BookingsOf(sid) : seat \in Range(bookings[c].bookedSeats)}

C2_NoDoubleAllocation ==
    \A sid \in Shows, seat \in Seats :
        /\ Cardinality(HoldersOf(sid, seat)) <= 1
        /\ occupiedSeats[sid][seat] # Free =>
               \E c \in HoldersOf(sid, seat) :
                   /\ HoldersOf(sid, seat) = {c}
                   /\ bookings[c].user = occupiedSeats[sid][seat]

\* C3: a booking whose isPaid flag was set before its 10 minute hold elapsed
\* is never released by its expiry run: the booking record stays, and no step
\* of that run removes one of its seats from the show's occupiedSeats.
ExpiryStep(c) == epc[c] # "none" /\ epc'[c] # epc[c]
PaidInTime(c) == Exists(bookings[c]) /\ bookings[c].isPaid /\ paidInTime[c]

C3_PaidNeverReleased ==
    [][\A c \in Calls :
          PaidInTime(c) =>
              /\ bookings'[c] = bookings[c]
              /\ ExpiryStep(c) =>
                     /\ epc'[c] \in {"check", "cancelled", "returned"}
                     /\ \A seat \in Range(bookings[c].bookedSeats) :
                            occupiedSeats'[bookings[c].show][seat] =
                                occupiedSeats[bookings[c].show][seat]]_vars

\* the run fired for a booking paid in time, and left it alone
C3_Witness ==
    \E c \in Calls :
        /\ PaidInTime(c) /\ epc[c] = "returned"
        /\ \A seat \in Range(bookings[c].bookedSeats) :
               occupiedSeats[bookings[c].show][seat] = bookings[c].user

\* C4: every booking of a successful createBooking that is never confirmed
\* is eventually removed, with its seats released: no hold is leaked.
\* Handlers and scheduled function runs always run on; new requests and
\* payment confirmations need never arrive.
Fairness ==
    \A c \in Calls :
        /\ WF_vars(FetchShow(c)) /\ WF_vars(BookingCreate(c))
        /\ WF_vars(SaveShow(c)) /\ WF_vars(StripeSession(c))
        /\ WF_vars(\E outcome \in SendOutcomes : SendCheckPayment(c, outcome))
        /\ WF_vars(SleepElapsed(c)) /\ WF_vars(CheckPaymentStatus(c))
        /\ WF_vars(ReadShowAndRelease(c)) /\ WF_vars(ExpirySave(c))
        /\ WF_vars(BookingDelete(c))

FairSpec == Spec /\ Fairness

Released(c) ==
    /\ Started(c) /\ req[c].show \in Shows
    /\ ~Exists(bookings[c])
    /\ \A seat \in Range(req[c].seats) :
           occupiedSeats[req[c].show][seat] = Free

C4_NoLeakedHold ==
    \A c \in Calls :
        [](Succeeded(c) => <>(Released(c) \/ paidEvent[c]))

\* C5: a createBooking call that selects a seat already present in the show's
\* occupiedSeats ends with the error naming the taken seats, and leaves the
\* occupiedSeats mapping and the bookings as they were.
ChecksNow(c) == pc[c] = "idle" /\ pc'[c] # "idle"
ValidRequest(r) == r.show \in Shows /\ r.isArray /\ Len(r.seats) > 0
OccupiedAmong(sid, sel) == {seat \in Range(sel) : occupiedSeats[sid][seat] # Free}

C5_ConflictNoMutation ==
    [][\A c \in Calls :
          (/\ ChecksNow(c) /\ ValidRequest(req'[c])
           /\ OccupiedAmong(req'[c].show, req'[c].seats) # {}) =>
              /\ pc'[c] = "done"
              /\ ~result'[c].success
              /\ result'[c].message[1] = "Seats are already taken"
              /\ Range(result'[c].message[2]) =
                     OccupiedAmong(req'[c].show, req'[c].seats)
              /\ occupiedSeats' = occupiedSeats
              /\ bookings' = bookings]_vars

\* a conflict on part of the selection: the other requested seat stays free
C5_Witness ==
    \E c \in Calls :
        /\ Finished(c) /\ ValidRequest(req[c]) /\ ~result[c].success
        /\ result[c].message[1] = "Seats are already taken"
        /\ \E seat \in Range(req[c].seats) :
               /\ seat \notin Range(result[c].message[2])
               /\ occupiedSeats[req[c].show][seat] = Free

\* C6: a createBooking call with an empty or non-array selectedSeats, or with
\* a showId that is malformed or names no show, ends with an error and leaves
\* the occupiedSeats mapping and the bookings as they were.
InputErrors ==
    {<<"Invalid show ID format">>, <<"Show not found">>,
     <<"Invalid seats selection">>}

C6_InvalidInputRejected ==
    [][\A c \in Calls :
          (ChecksNow(c) /\ ~ValidRequest(req'[c])) =>
              /\ pc'[c] = "done"
              /\ ~result'[c].success
              /\ result'[c].message \in InputErrors
              /\ occupiedSeats' = occupiedSeats
              /\ bookings' = bookings]_vars

C6_Witness ==
    \E c, d \in Calls :
        /\ Finished(c) /\ result[c] = Failure(<<"Invalid seats selection">>)
        /\ req[c].isArray /\ req[c].seats = <<>>
        /\ Finished(d) /\ result[d] = Failure(<<"Show not found">>)
        /\ ~Exists(bookings[c]) /\ ~Exists(bookings[d])

\* C7: a createBooking call that fails leaves no booking and no seat entry of
\* its own behind, also when it fails after the seats were acquired.
OtherHolder(c, seat) ==
    \E d \in BookingsOf(req[c].show) \ {c} :
        /\ bookings[d].user = req[c].user
        /\ seat \in Range(bookings[d].bookedSeats)

C7_FailureRolledBack ==
    \A c \in Calls :
        (Finished(c) /\ ~result[c].success) =>
            /\ ~Exists(bookings[c])
            /\ ValidRequest(req[c]) =>
                   \A seat \in Range(req[c].seats) :
                       occupiedSeats[req[c].show][seat] = req[c].user =>
                           OtherHolder(c, seat)

\* C8: whatever becomes of the app/checkpayment event (sent, rejected, or not
\* sent within the 2 second deadline), createBooking ends with success and
\* the payment URL, and the booking and the seat entries stay as they were.
SendsNow(c) == pc[c] = "send" /\ pc'[c] # "send"

C8_SendFailureSwallowed ==
    [][\A c \in Calls :
          SendsNow(c) =>
              /\ pc'[c] = "done"
              /\ result'[c] = [success |-> TRUE, url |-> "session.url"]
              /\ bookings' = bookings
              /\ occupiedSeats' = occupiedSeats]_vars

\* the event was not delivered, and the call succeeded all the same
C8_Witness ==
    \E c \in Calls :
        /\ Succeeded(c) /\ epc[c] = "none"
        /\ Exists(bookings[c]) /\ ~bookings[c].isPaid
        /\ \A seat \in Range(req[c].seats) :
               occupiedSeats[req[c].show][seat] = req[c].user

\* C9: the seat-map mutations on one show are linearized: the stored
\* occupiedSeats mapping is the result of applying the acquisitions and the
\* releases that have written it, one at a time, in some total order.
Acquired(c) ==
    \/ pc[c] \in {"stripe", "send"}
    \/ /\ Finished(c)
       /\ (result[c].success \/ result[c].message = <<"stripe error">>)
ReleasedSeats(c) ==
    \/ epc[c] \in {"delete", "done"}
    \/ epc[c] \in {"check", "returned"} /\ ~Exists(bookings[c])
WrittenOps(sid) ==
    {[kind |-> "acquire", call |-> c] :
        c \in {d \in Calls : Acquired(d) /\ req[d].show = sid}}
    \cup
    {[kind |-> "release", call |-> c] :
        c \in {d \in Calls : ReleasedSeats(d) /\ req[d].show = sid}}
Orders(ops) ==
    {order \in [1..Cardinality(ops) -> ops] :
        \A i, j \in 1..Cardinality(ops) : order[i] = order[j] => i = j}
ApplyOp(occ, op) ==
    IF op.kind = "acquire"
    THEN [seat \in Seats |->
             IF seat \in Range(req[op.call].seats) THEN req[op.call].user
             ELSE occ[seat]]
    ELSE [seat \in Seats |->
             IF seat \in Range(req[op.call].seats) THEN Free ELSE occ[seat]]
RECURSIVE Replay(_, _)
Replay(occ, order) ==
    IF Len(order) = 0 THEN occ
    ELSE Replay(ApplyOp(occ, Head(order)), Tail(order))

C9_Linearized ==
    \A sid \in Shows :
        \E order \in Orders(WrittenOps(sid)) :
            Replay([seat \in Seats |-> Free], order) = occupiedSeats[sid]

\* C10: releasing seats is idempotent: it yields a seat mapping (no error),
\* releasing the same seats again changes nothing more, and releasing seats
\* that are all free leaves the mapping as it is.
StoredMaps ==
    {occupiedSeats[sid] : sid \in Shows}
    \cup {eshow[c] : c \in {d \in Calls : epc[d] = "save"}}

C10_ReleaseIdempotent ==
    \A occ \in StoredMaps, sel \in SeatSeqs :
        LET once == ReleaseSeats(occ, sel) IN
        /\ once \in SeatMaps
        /\ ReleaseSeats(once, sel) = once
        /\ (\A seat \in Range(sel) : occ[seat] = Free) => once = occ

\* an expiry run is about to save a release of seats that are free already
C10_Witness ==
    \E c \in Calls :
        /\ epc[c] = "save"
        /\ eshow[c] = occupiedSeats[bookings[c].show]
        /\ \E d \in Calls \ {c} :
               /\ ReleasedSeats(d)
               /\ Range(req[d].seats) \cap Range(bookings[c].bookedSeats) # {}

\* C11: an expiry run cancelled by booking.paid during its sleep is terminal:
\* it takes no further step, so its check-and-release never runs and the
\* booking stays, with isPaid true.
Cancelled(c) == epc[c] = "cancelled"

ChecksStatus(c) == epc[c] = "check" /\ epc'[c] # "check"

C15_GoneBookingNoop ==
    [][\A c \in Calls :
          (ChecksStatus(c) /\ ~Exists(bookings[c])) =>
              /\ epc'[c] = "returned"
              /\ occupiedSeats' = occupiedSeats
              /\ bookings' = bookings]_vars

C15_Witness ==
    \E c \in Calls : epc[c] = "returned" /\ ~Exists(bookings[c])

\* C16: an expiry run that was not cancelled and finds its booking with
\* isPaid true leaves the booking and the occupiedSeats mappings unchanged,
\* and ends.
C16_PaidCheckedNoop ==
    [][\A c \in Calls :
          /\ (ChecksStatus(c) /\ Exists(bookings[c]) /\ bookings[c].isPaid) =>
                 /\ epc'[c] = "returned"
                 /\ occupiedSeats' = occupiedSeats
                 /\ bookings' = bookings
          /\ (epc[c] = "returned" /\ Exists(bookings[c])) =>
                 /\ epc'[c] = "returned"
                 /\ bookings'[c] = bookings[c]]_vars

\* the payment came after the sleep had elapsed, and the check still saw it
C16_Witness ==
    \E c \in Calls :
        /\ epc[c] = "returned" /\ Exists(bookings[c]) /\ bookings[c].isPaid
        /\ ~paidInTime[c]
        /\ \A seat \in Range(bookings[c].bookedSeats) :
               occupiedSeats[bookings[c].show][seat] = bookings[c].user

\* C17: the expiry run of an unpaid booking frees every seat of its
\* bookedSeats and leaves every other seat entry and every booking as it
\* was, and only then deletes its own booking record and nothing else.
C17_ReleaseFrame ==
    [][\A c \in Calls :
          /\ (epc[c] = "save" /\ epc'[c] = "delete") =>
                 /\ \A seat \in Seats :
                        occupiedSeats'[bookings[c].show][seat] =
                            IF seat \in Range(bookings[c].bookedSeats)
                            THEN Free
                            ELSE occupiedSeats[bookings[c].show][seat]
                 /\ bookings' = bookings
          /\ (epc[c] = "delete" /\ epc'[c] = "done") =>
                 /\ bookings' = [bookings EXCEPT ![c] = NoBooking]
                 /\ occupiedSeats' = occupiedSeats]_vars

\* C18: after a successful createBooking the booking is confirmed, or
\* expired and deleted, or has an expiry run pending.
ExpiryPending(c) ==
    epc[c] \in {"sleeping", "check", "readShow", "save", "delete"}

C18_ExpiryScheduled ==
    \A c \in Calls :
        Succeeded(c) =>
            \/ ~Exists(bookings[c])
            \/ bookings[c].isPaid
            \/ ExpiryPending(c)

\* C19: after createBooking has saved the show, every acquired seat maps in
\* occupiedSeats to the id of the new booking.
BookingId(c) == ToString(c)
SavesShow(c) == pc[c] = "save" /\ pc'[c] = "stripe"

C20_EntriesHaveBooking ==
    \A sid \in Shows, seat \in Seats :
        occupiedSeats[sid][seat] # Free =>
            \E c \in BookingsOf(sid) :
                /\ seat \in Range(bookings[c].bookedSeats)
                /\ bookings[c].user = occupiedSeats[sid][seat]

\* C12: in one scan, for every show the scan selects, a requester who holds
\* seats of that show, however many and in however many bookings, gets
\* exactly one reminder task for the show, and nobody gets more than one.
\* A show whose movie is gone and a holder whose User document is gone are
\* skipped by the scan.
ScanPrepared == spc \in {"prepared", "done"}
TasksFor(u, sid) ==
    Len(SelectSeq(reminderTasks, LAMBDA t : t.user = u /\ t.show = sid))
SeatsHeldBy(u, sid) == {seat \in Seats : occupiedSeats[sid][seat] = u}
Selected(sid) == sid \in Range(FindShows(now)) /\ movie[sid]

C12_OneTaskPerHolder ==
    ScanPrepared =>
        \A sid \in DOMAIN occupiedSeats, u \in Users :
            /\ TasksFor(u, sid) <= 1
            /\ (Selected(sid) /\ u \in users /\ SeatsHeldBy(u, sid) # {}) =>
                   TasksFor(u, sid) = 1

\* a requester with two bookings and two seats in a selected show has one task
C12_Witness ==
    /\ ScanPrepared
    /\ \E sid \in DOMAIN occupiedSeats, u \in users :
           /\ Selected(sid)
           /\ Cardinality(SeatsHeldBy(u, sid)) > 1
           /\ Cardinality({c \in BookingsOf(sid) : bookings[c].user = u}) > 1
           /\ TasksFor(u, sid) = 1

\* C13: a scan that prepared tasks attempts every one of them whatever the
\* outcome of the others: there is one result for every task, sent is the
\* number of deliveries that succeeded, and sent + failed is the number of
\* tasks.  A scan without tasks attempts nothing and reports sent = 0.
ScanReturned == spc = "done"
Deliveries == {i \in 1..Len(results) : results[i].delivered}

C13_EveryTaskAttempted ==
    ScanReturned =>
        IF Len(reminderTasks) = 0
        THEN Len(results) = 0 /\ report.sent = 0
        ELSE /\ Len(results) = Len(reminderTasks)
             /\ \A i \in 1..Len(results) : results[i].to = reminderTasks[i].user
             /\ report.sent = Cardinality(Deliveries)
             /\ report.sent + report.failed = Len(reminderTasks)

\* a delivery failed and a later one of the same scan succeeded
C13_Witness ==
    /\ ScanReturned
    /\ \E i, j \in 1..Len(results) :
           i < j /\ ~results[i].delivered /\ results[j].delivered
    /\ report.sent > 0 /\ report.failed > 0

\* C14: getOccupiedSeats for an existing show answers 200 with exactly the
\* keys of the show's occupiedSeats, each once, with total their number and
\* with nothing in the response that names a holder; it changes nothing.
Answered(sid) == getSeats' # getSeats /\ getSeats'.showId = sid
OccupiedKeys(sid) == {seat \in Seats : occupiedSeats[sid][seat] # Free}

C14_SeatsSnapshot ==
    [][\A sid \in DOMAIN occupiedSeats :
          Answered(sid) =>
              LET res == getSeats'.res IN
              /\ res.status = 200 /\ res.success
              /\ DOMAIN res = {"status", "success", "occupiedSeats", "total"}
              /\ Range(res.occupiedSeats) = OccupiedKeys(sid)
              /\ Len(res.occupiedSeats) = Cardinality(OccupiedKeys(sid))
              /\ res.total = Cardinality(OccupiedKeys(sid))
              /\ \A i \in 1..Len(res.occupiedSeats) :
                     res.occupiedSeats[i] \in Seats \ Users
              /\ UNCHANGED <<lifeVars, catalogVars, scanVars>>]_vars

\* all seats of the show were listed, held by two different requesters
C14_Witness ==
    /\ getSeats # NoGetSeats
    /\ getSeats.showId \in DOMAIN occupiedSeats
    /\ getSeats.res.status = 200
    /\ getSeats.res.total = Cardinality(Seats)
    /\ Cardinality({occupiedSeats[getSeats.showId][seat] : seat \in Seats}) > 1

\* C21: the booking that createBooking creates has amount equal to the
\* show's price times the number of selected seats, and isPaid false.
CreatesBooking(c) == pc[c] = "create" /\ pc'[c] = "save"

C21_AmountAndFlag ==
    [][\A c \in Calls :
          CreatesBooking(c) =>
              /\ Exists(bookings'[c])
              /\ bookings'[c].amount =
                     showPrice[req[c].show] * Len(req[c].seats)
              /\ ~bookings'[c].isPaid]_vars

\* a booking of MaxSel seats was just created, at MaxSel times the price
C21_Witness ==
    \E c \in Calls :
        /\ pc[c] = "save"
        /\ Len(req[c].seats) = MaxSel
        /\ bookings[c].amount = showPrice[req[c].show] * MaxSel
        /\ ~bookings[c].isPaid

\* C22: every reminder task of a scan is for a requester who has a paid
\* booking in the task's show; a requester whose bookings in the show are
\* all unpaid gets no task.
PaidHolders(sid) ==
    {bookings[c].user : c \in {d \in BookingsOf(sid) : bookings[d].isPaid}}

C22_OnlyConfirmedHolders ==
    ScanPrepared =>
        \A i \in 1..Len(reminderTasks) :
            reminderTasks[i].user \in PaidHolders(reminderTasks[i].show)

\* C23: a scan run at time now selects exactly the shows that start in the
\* 10 minutes beginning 8 hours after now.  A selected show is seen in the
\* tasks when it has its movie and a holder with a User document.
HasTask(sid) == \E i \in 1..Len(reminderTasks) : reminderTasks[i].show = sid
Remindable(sid) ==
    movie[sid] /\ \E u \in users : SeatsHeldBy(u, sid) # {}

C23_WindowBeginsAtLead ==
    ScanPrepared =>
        \A sid \in DOMAIN occupiedSeats :
            LET within == /\ showTime[sid] >= now + LeadMinutes
                          /\ showTime[sid] <= now + LeadMinutes + WindowMinutes
            IN /\ HasTask(sid) => within
               /\ (Remindable(sid) /\ within) => HasTask(sid)

\* C23 as the code has it: the scan selects exactly the shows that start in
\* the 10 minutes ending 8 hours after now, both ends included.
C23_WindowEndsAtLead ==
    ScanPrepared =>
        \A sid \in DOMAIN occupiedSeats :
            LET within == /\ showTime[sid] >= now + LeadMinutes - WindowMinutes
                          /\ showTime[sid] <= now + LeadMinutes
            IN /\ HasTask(sid) => within
               /\ (Remindable(sid) /\ within) => HasTask(sid)

\* a show at the early edge of the window has a task, and a show with holders
\* one minute after the late edge has none
C23_Witness ==
    /\ ScanPrepared
    /\ \E sid, other \in DOMAIN occupiedSeats :
           /\ showTime[sid] = now + LeadMinutes - WindowMinutes
           /\ HasTask(sid)
           /\ showTime[other] = now + LeadMinutes + 1
           /\ Remindable(other)
           /\ ~HasTask(other)

\* C24: whenever no createBooking call and no expiry run is in the middle of
\* its steps, every existing booking, paid or not, has each of its
\* bookedSeats as a key of its show's occupiedSeats.
Quiescent ==
    \A c \in Calls :
        /\ pc[c] \in {"idle", "done"}
        /\ epc[c] \in {"none", "sleeping", "cancelled", "returned", "done"}

C24_BookingKeepsSeats ==
    Quiescent =>
        \A c \in Calls :
            Exists(bookings[c]) =>
                \A seat \in Range(bookings[c].bookedSeats) :
                    occupiedSeats[bookings[c].show][seat] # Free

====
